---- MODULE Spec2Model ----
(***************************************************************************)
(* Shopping-cart ("bag") screen with PayPal checkout:                      *)
(* src/screens/CreateAccountPage.js, BagScreen (lines 134-337).            *)
(*                                                                         *)
(* Currency amounts are integer cents (45.99 is 4599).  The sums the       *)
(* screen computes in binary floating point differ from the exact cent     *)
(* value by far less than half a cent for every quantity the model         *)
(* reaches, so toFixed(2) of the float equals the formatting of the cents. *)
(*                                                                         *)
(* The screen is single threaded: every handler below is one atomic step   *)
(* of the UI event queue, including the re-render that follows a state     *)
(* update.  The code never disables a control, so every tap is possible in *)
(* every state.                                                            *)
(***************************************************************************)
EXTENDS Integers, Sequences, FiniteSets, TLC

VARIABLES
    PlatformOS,   \* Platform.OS
    PayPal,       \* module-level PayPal: "null" or "loaded"
    cartItems,    \* useState: sequence of [id, name, details, price, quantity]
    subtotal,     \* useMemo value of the latest render
    totalItems,   \* useMemo value of the latest render
    calls,        \* one record per invocation of handlePayPalPayment
    submitLog,    \* paymentData objects received by PayPal.payWithPayPal
    taps          \* number of quantity taps so far (bounds the model)

vars == <<PlatformOS, PayPal, cartItems, subtotal, totalItems, calls, submitLog, taps>>

\* ------------------------------------------------------------------ bounds
MaxTaps == 2
MaxCheckouts == 2

\* ------------------------------------------------------- program constants
SHIPPING_COST == 1500

\* the initial value of useState: the seed cart
SeedCart ==
    << [id |-> 1, name |-> "Athletic Gear 1", details |-> "Size L - Black",
        price |-> 4599, quantity |-> 2],
       [id |-> 2, name |-> "Athletic Gear 2", details |-> "Size M - Red",
        price |-> 5299, quantity |-> 1],
       [id |-> 3, name |-> "Athletic Gear 3", details |-> "Size XL - Blue",
        price |-> 3895, quantity |-> 3] >>

\* an id that matches no line item
UnknownId == Len(SeedCart) + 1

\* the ids the quantity handlers are called with
Ids == {SeedCart[k].id : k \in 1..Len(SeedCart)} \cup {UnknownId}

\* response.response.id of a fulfilled payment
TxIds == {"PAY-1", "PAY-2"}

\* why a payment promise rejects
Reasons == {"network", "cancelled", "declined", "exception"}

\* ------------------------------------------------------------ pure helpers
\* mutant of ReduceSubtotal: the reducer adds the unit price, not price * quantity
RECURSIVE ReduceSubtotal_NoQuantity(_, _)
ReduceSubtotal_NoQuantity(items, sum) ==
    IF items = << >> THEN sum
    ELSE ReduceSubtotal_NoQuantity(Tail(items), sum + Head(items).price)

\* cartItems.reduce((sum, item) => sum + (item.price * item.quantity), 0)
RECURSIVE ReduceSubtotal(_, _)
ReduceSubtotal(items, sum) ==
    IF items = << >> THEN sum
    ELSE ReduceSubtotal(Tail(items), sum + Head(items).price * Head(items).quantity)

\* cartItems.reduce((sum, item) => sum + item.quantity, 0)
RECURSIVE ReduceTotalItems(_, _)
ReduceTotalItems(items, sum) ==
    IF items = << >> THEN sum
    ELSE ReduceTotalItems(Tail(items), sum + Head(items).quantity)

\* the useMemo body, evaluated by the render that follows a cartItems update
Memo(items) ==
    [subtotal |-> ReduceSubtotal(items, 0), totalItems |-> ReduceTotalItems(items, 0)]

\* const total = subtotal + SHIPPING_COST, of the latest render
total == subtotal + SHIPPING_COST

\* Number.prototype.toFixed(2): the decimal string, as <<integer part, tenths, hundredths>>
toFixed2(cents) == << cents \div 100, (cents % 100) \div 10, cents % 10 >>

\* mutant of IncrementMap: the id test is missing, every item is incremented
IncrementMap_EveryItem(items, id) ==
    [k \in 1..Len(items) |-> [items[k] EXCEPT !.quantity = items[k].quantity + 1]]

\* items.map(item => item.id === id ? {...item, quantity: item.quantity + 1} : item)
IncrementMap(items, id) ==
    [k \in 1..Len(items) |->
        IF items[k].id = id
        THEN [items[k] EXCEPT !.quantity = items[k].quantity + 1]
        ELSE items[k]]

\* mutant of DecrementMap: the floor test is quantity > 0
DecrementMap_FloorZero(items, id) ==
    [k \in 1..Len(items) |->
        IF items[k].id = id /\ items[k].quantity > 0
        THEN [items[k] EXCEPT !.quantity = items[k].quantity - 1]
        ELSE items[k]]

\* items.map(item => item.id === id && item.quantity > 1 ? {...item, quantity: item.quantity - 1} : item)
DecrementMap(items, id) ==
    [k \in 1..Len(items) |->
        IF items[k].id = id /\ items[k].quantity > 1
        THEN [items[k] EXCEPT !.quantity = items[k].quantity - 1]
        ELSE items[k]]

\* setCartItems(next) followed by the re-render it schedules
SetCartItems(next) ==
    /\ cartItems' = next
    /\ subtotal' = Memo(next).subtotal
    /\ totalItems' = Memo(next).totalItems

\* paymentData.amount of a call that built no paymentData
NoAmount == << >>

\* the record of a call that has not shown a dialog and not submitted
BlankCall ==
    [mode |-> "none", amount |-> NoAmount, description |-> -1,
     promise |-> "none", response |-> "none",
     alert |-> "none", message |-> "none", okPress |-> "none", acked |-> FALSE]

\* Alert.alert(title, message, [{text: 'OK', onPress}]) shown by call c
ShowAlert(c, title, message, okPress) ==
    [c EXCEPT !.alert = title, !.message = message, !.okPress = okPress]

\* call c after its dialog was dismissed: the dialog is gone, and with it the
\* closure that held paymentData and the response; what remains is what was shown
Dismissed(c) ==
    [c EXCEPT !.acked = TRUE, !.amount = NoAmount, !.description = -1,
              !.response = "none", !.message = "none"]

\* ------------------------------------------------------------------- Init
Init ==
    /\ PlatformOS \in {"web", "ios"}
    /\ PayPal \in (IF PlatformOS = "web" THEN {"null"} ELSE {"null", "loaded"})
    /\ cartItems = SeedCart
    /\ subtotal = Memo(SeedCart).subtotal
    /\ totalItems = Memo(SeedCart).totalItems
    /\ calls = << >>
    /\ submitLog = << >>
    /\ taps = 0

\* ---------------------------------------------------------------- actions
\* mutant of incrementQuantity: paymentData.amount is a live view of total, so a
\* pending submission follows the cart
incrementQuantity_LiveAmount(id) ==
    /\ taps < MaxTaps
    /\ taps' = taps + 1
    /\ SetCartItems(IncrementMap(cartItems, id))
    /\ calls' = [i \in 1..Len(calls) |->
                    IF calls[i].promise = "pending"
                    THEN [calls[i] EXCEPT !.amount =
                             toFixed2(Memo(IncrementMap(cartItems, id)).subtotal + SHIPPING_COST)]
                    ELSE calls[i]]
    /\ UNCHANGED <<PlatformOS, PayPal, submitLog>>

\* onPress of the "add" button of item id
incrementQuantity(id) ==
    /\ taps < MaxTaps
    /\ taps' = taps + 1
    /\ SetCartItems(IncrementMap(cartItems, id))
    /\ UNCHANGED <<PlatformOS, PayPal, calls, submitLog>>

\* onPress of the "remove" button of item id
decrementQuantity(id) ==
    /\ taps < MaxTaps
    /\ taps' = taps + 1
    /\ SetCartItems(DecrementMap(cartItems, id))
    /\ UNCHANGED <<PlatformOS, PayPal, calls, submitLog>>

\* the synchronous part of handlePayPalPayment
handlePayPalPayment ==
    /\ Len(calls) < MaxCheckouts
    /\ IF PlatformOS = "web"
       THEN /\ calls' = Append(calls,
                   ShowAlert([BlankCall EXCEPT !.mode = "WebDemo"],
                             "Demo Mode", "simulation completed", "setCartItems([])"))
            /\ UNCHANGED submitLog
       ELSE IF PayPal = "null"
       THEN /\ calls' = Append(calls,
                   ShowAlert([BlankCall EXCEPT !.mode = "NativeUnavailable"],
                             "PayPal Unavailable", "not available", "none"))
            /\ UNCHANGED submitLog
       ELSE LET paymentData == [amount |-> toFixed2(total), currency |-> "USD",
                                description |-> totalItems]
            IN /\ calls' = Append(calls,
                      [BlankCall EXCEPT !.mode = "NativeLive",
                                        !.amount = paymentData.amount,
                                        !.description = paymentData.description,
                                        !.promise = "pending"])
               /\ submitLog' = Append(submitLog, paymentData)
    /\ UNCHANGED <<PlatformOS, PayPal, cartItems, subtotal, totalItems, taps>>

\* the promise of call i fulfils with response.response.id = tx; the .then handler runs
PaymentThen(i, tx) ==
    /\ i \in 1..Len(calls)
    /\ calls[i].promise = "pending"
    /\ calls' = [calls EXCEPT ![i] =
           ShowAlert([calls[i] EXCEPT !.promise = "fulfilled", !.response = tx],
                     "Payment Successful!", tx, "setCartItems([])")]
    /\ UNCHANGED <<PlatformOS, PayPal, cartItems, subtotal, totalItems, submitLog, taps>>

\* mutant of PaymentCatch: the failure handler also clears the cart
PaymentCatch_ClearsCart(i, error) ==
    /\ i \in 1..Len(calls)
    /\ calls[i].promise = "pending"
    /\ calls' = [calls EXCEPT ![i] =
           ShowAlert([calls[i] EXCEPT !.promise = "rejected"],
                     "Payment Failed", "error processing your payment", "none")]
    /\ SetCartItems(<< >>)
    /\ UNCHANGED <<PlatformOS, PayPal, submitLog, taps>>

\* mutant of PaymentCatch: the failure handler submits the payment again
PaymentCatch_Retries(i, error) ==
    /\ i \in 1..Len(calls)
    /\ calls[i].promise = "pending"
    /\ calls' = calls
    /\ submitLog' = Append(submitLog,
           [amount |-> calls[i].amount, currency |-> "USD", description |-> calls[i].description])
    /\ Len(submitLog) < 2 * MaxCheckouts
    /\ UNCHANGED <<PlatformOS, PayPal, cartItems, subtotal, totalItems, taps>>

\* mutant of PaymentCatch: the failure handler only logs, no dialog is shown
PaymentCatch_Silent(i, error) ==
    /\ i \in 1..Len(calls)
    /\ calls[i].promise = "pending"
    /\ calls' = [calls EXCEPT ![i].promise = "rejected"]
    /\ UNCHANGED <<PlatformOS, PayPal, cartItems, subtotal, totalItems, submitLog, taps>>

\* the promise of call i rejects with error; the .catch handler runs
PaymentCatch(i, error) ==
    /\ i \in 1..Len(calls)
    /\ calls[i].promise = "pending"
    /\ calls' = [calls EXCEPT ![i] =
           ShowAlert([calls[i] EXCEPT !.promise = "rejected"],
                     "Payment Failed", "error processing your payment", "none")]
    /\ UNCHANGED <<PlatformOS, PayPal, cartItems, subtotal, totalItems, submitLog, taps>>

\* mutant of AlertOK: the OK button of a dialog has no onPress
AlertOK_NoOnPress(i) ==
    /\ i \in 1..Len(calls)
    /\ calls[i].alert # "none"
    /\ ~calls[i].acked
    /\ calls' = [calls EXCEPT ![i] = Dismissed(calls[i])]
    /\ UNCHANGED <<PlatformOS, PayPal, cartItems, subtotal, totalItems, submitLog, taps>>

\* the user presses OK on the dialog of call i; its onPress, if any, runs
AlertOK(i) ==
    /\ i \in 1..Len(calls)
    /\ calls[i].alert # "none"
    /\ ~calls[i].acked
    /\ calls' = [calls EXCEPT ![i] = Dismissed(calls[i])]
    /\ IF calls[i].okPress = "setCartItems([])"
       THEN SetCartItems(<< >>)
       ELSE UNCHANGED <<cartItems, subtotal, totalItems>>
    /\ UNCHANGED <<PlatformOS, PayPal, submitLog, taps>>

Next ==
    \/ \E id \in Ids : incrementQuantity(id)
    \/ \E id \in Ids : decrementQuantity(id)
    \/ handlePayPalPayment
    \/ \E i \in 1..MaxCheckouts, tx \in TxIds : PaymentThen(i, tx)
    \/ \E i \in 1..MaxCheckouts, error \in Reasons : PaymentCatch(i, error)
    \/ \E i \in 1..MaxCheckouts : AlertOK(i)

Spec == Init /\ [][Next]_vars

\* the payment capability settles the promise of call i
CapabilityResponds(i) ==
    \/ \E tx \in TxIds : PaymentThen(i, tx)
    \/ \E error \in Reasons : PaymentCatch(i, error)

\* every submission is eventually resolved or rejected by the capability
FairSpec == Spec /\ \A i \in 1..MaxCheckouts : WF_vars(CapabilityResponds(i))

\* ------------------------------------------------- vocabulary of the claims
\* the outcome of a checkout attempt, read off the dialog its call has shown
Outcome(c) ==
    IF c.alert \in {"Demo Mode", "Payment Successful!"} THEN "Success"
    ELSE IF c.alert = "Payment Failed" THEN "Failure"
    ELSE IF c.alert = "PayPal Unavailable" THEN "Unavailable"
    ELSE IF c.promise = "pending" THEN "Submitting"
    ELSE "Idle"

Terminal == {"Success", "Failure", "Unavailable"}

\* the outcome of attempt i in a sequence of calls; an attempt not yet made is Idle
OutcomeAt(cs, i) == IF i \in 1..Len(cs) THEN Outcome(cs[i]) ELSE "Idle"

\* the cents a two-decimal amount string denotes
ParseAmount(a) == a[1] * 100 + a[2] * 10 + a[3]

WellFormedAmount(a) == Len(a) = 3 /\ a[1] >= 0 /\ a[2] \in 0..9 /\ a[3] \in 0..9

RECURSIVE SumUpTo(_, _)
SumUpTo(f, n) == IF n = 0 THEN 0 ELSE f[n] + SumUpTo(f, n - 1)

\* sum over the line items of unitPrice x quantity, and of quantity
SigmaPriceQty(items) ==
    SumUpTo([k \in 1..Len(items) |-> items[k].price * items[k].quantity], Len(items))

SigmaQty(items) == SumUpTo([k \in 1..Len(items) |-> items[k].quantity], Len(items))

\* this step is an invocation of the checkout action
CheckoutInvoked == Len(calls') = Len(calls) + 1

\* this step is the user's OK on the dialog of attempt i
Acknowledged(i) == i \in 1..Len(calls) /\ ~calls[i].acked /\ calls'[i].acked

PendingCalls == {i \in 1..Len(calls) : calls[i].promise = "pending"}

\* ------------------------------------------------------------------ claims

\* C1: only one checkout attempt is in flight at a time: no reachable state has
\* two pending payment submissions.
C1_OneCheckoutInFlight == Cardinality(PendingCalls) <= 1

\* C2: the amount submitted to the payment capability is the cart total
\* (subtotal + flat shipping, two decimals) at the moment the checkout is
\* initiated, and no later step changes the amount of a submitted attempt,
\* whatever increments and decrements happen while it is pending (or while its
\* dialog is open).
C2_AmountCapturedAtSubmission ==
    [][ /\ (CheckoutInvoked /\ PlatformOS # "web" /\ PayPal = "loaded") =>
              LET c == calls'[Len(calls')]
                  sent == submitLog'[Len(submitLog')]
              IN /\ WellFormedAmount(c.amount)
                 /\ ParseAmount(c.amount) = SigmaPriceQty(cartItems) + SHIPPING_COST
                 /\ sent.amount = c.amount
                 /\ c.description = SigmaQty(cartItems)
        /\ \A i \in 1..Len(calls) : ~calls'[i].acked => calls'[i].amount = calls[i].amount
        /\ \A k \in 1..Len(submitLog) : submitLog'[k] = submitLog[k] ]_vars

\* a payment is pending while the cart no longer has the total that was submitted
C2_Witness ==
    \E i \in PendingCalls :
        /\ ParseAmount(calls[i].amount) # SigmaPriceQty(cartItems) + SHIPPING_COST
        /\ cartItems # << >>

\* C3: a checkout that does not succeed never changes the cart: native without
\* the capability gives Unavailable, any rejection gives Failure with the same
\* generic message, the cart is what it was before the outcome and after the
\* dialog is dismissed, and the checkout can be invoked again.
C3_FailedCheckoutKeepsCart ==
    /\ [][ /\ (CheckoutInvoked /\ PlatformOS # "web" /\ PayPal = "null") =>
                 /\ Outcome(calls'[Len(calls')]) = "Unavailable"
                 /\ cartItems' = cartItems
           /\ \A i \in 1..Len(calls) :
                 /\ (calls[i].promise = "pending" /\ calls'[i].promise = "rejected") =>
                       /\ Outcome(calls'[i]) = "Failure"
                       /\ calls'[i].message = "error processing your payment"
                       /\ cartItems' = cartItems
                 /\ \A error \in Reasons : PaymentCatch(i, error) =>
                       /\ Outcome(calls'[i]) = "Failure"
                       /\ calls'[i].message = "error processing your payment"
                       /\ cartItems' = cartItems
                 /\ (Acknowledged(i) /\ Outcome(calls[i]) \in {"Failure", "Unavailable"}) =>
                       cartItems' = cartItems ]_vars
    /\ [](\A i \in 1..Len(calls) :
             (Outcome(calls[i]) \in {"Failure", "Unavailable"} /\ Len(calls) < MaxCheckouts)
                => ENABLED handlePayPalPayment)

\* a rejected payment was acknowledged, the changed cart is still there and the
\* checkout has been invoked again
C3_Witness ==
    /\ Len(calls) = 2
    /\ Outcome(calls[1]) = "Failure" /\ calls[1].acked
    /\ calls[2].promise = "pending"
    /\ Len(cartItems) = 3 /\ cartItems # SeedCart

\* C4: every successful checkout results in an empty cart: a Web checkout gives
\* Success without a submission, a fulfilled native payment gives Success and
\* shows the transaction id the capability returned, and the OK of a success
\* dialog removes all items in one step; the cart is empty from then on.
C4_SuccessEmptiesCart ==
    /\ [][ /\ (CheckoutInvoked /\ PlatformOS = "web") =>
                 /\ Outcome(calls'[Len(calls')]) = "Success"
                 /\ calls'[Len(calls')].response = "none"
                 /\ submitLog' = submitLog
           /\ \A i \in 1..Len(calls) :
                 /\ \A tx \in TxIds : PaymentThen(i, tx) =>
                       /\ Outcome(calls'[i]) = "Success"
                       /\ calls'[i].message = tx
                 /\ (Acknowledged(i) /\ Outcome(calls[i]) = "Success") =>
                       cartItems' = << >> ]_vars
    /\ [](\A i \in 1..Len(calls) :
             (Outcome(calls[i]) = "Success" /\ calls[i].acked) => cartItems = << >>)

\* a native payment succeeded after the cart was changed, and the cart is empty
C4_Witness ==
    \E i \in 1..Len(calls) :
        /\ calls[i].mode = "NativeLive" /\ Outcome(calls[i]) = "Success" /\ calls[i].acked
        /\ taps > 0
        /\ cartItems = << >>

\* C5: every line item in the cart has quantity >= 1; decrement lowers a
\* quantity above 1 by exactly 1 and leaves a quantity of 1 (and the cart)
\* unchanged; increment raises the quantity by exactly 1.
C5_QuantityFloor ==
    /\ [](\A k \in 1..Len(cartItems) : cartItems[k].quantity >= 1)
    /\ [][ \A id \in Ids :
             /\ decrementQuantity(id) =>
                   /\ Len(cartItems') = Len(cartItems)
                   /\ \A k \in 1..Len(cartItems) :
                         cartItems[k].id = id =>
                            IF cartItems[k].quantity > 1
                            THEN cartItems'[k].quantity = cartItems[k].quantity - 1
                            ELSE cartItems' = cartItems
             /\ incrementQuantity(id) =>
                   /\ Len(cartItems') = Len(cartItems)
                   /\ \A k \in 1..Len(cartItems) :
                         cartItems[k].id = id =>
                            cartItems'[k].quantity = cartItems[k].quantity + 1 ]_vars

\* item 1 (seed quantity 2) and item 2 (seed quantity 1) were both tapped down as
\* far as the taps allow
C5_Witness ==
    /\ Len(cartItems) = 3
    /\ cartItems[1].quantity = 1
    /\ cartItems[2].quantity = 1
    /\ cartItems[3].quantity = 3
    /\ taps = 2

\* C6: an invocation of the checkout action calls the capability's submit once
\* on native with the capability loaded and not at all otherwise; no other step
\* submits (no automatic retry), so submissions never exceed invocations.
C6_OneSubmitPerCheckout ==
    /\ [][ IF CheckoutInvoked
           THEN Len(submitLog') = Len(submitLog) +
                    (IF PlatformOS # "web" /\ PayPal = "loaded" THEN 1 ELSE 0)
           ELSE submitLog' = submitLog ]_vars
    /\ [](Len(submitLog) <= Len(calls))

\* a payment failed and was acknowledged; it was submitted once
C6_Witness ==
    /\ Len(calls) = 1
    /\ Outcome(calls[1]) = "Failure" /\ calls[1].acked
    /\ Len(submitLog) = 1

\* C7: in every state the derived values match the items: subtotal is the sum
\* of unitPrice x quantity, totalItems the sum of the quantities, total is
\* subtotal + shipping; 261.82 / 276.82 / 6 for the seed cart and
\* 0 / shipping / 0 for the cleared cart.
C7_DerivedTotals ==
    /\ subtotal = SigmaPriceQty(cartItems)
    /\ totalItems = SigmaQty(cartItems)
    /\ total = SigmaPriceQty(cartItems) + SHIPPING_COST
    /\ cartItems = SeedCart => (subtotal = 26182 /\ total = 27682 /\ totalItems = 6)
    /\ cartItems = << >> => (subtotal = 0 /\ total = SHIPPING_COST /\ totalItems = 0)

\* the cart was changed and then cleared
C7_Witness == cartItems = << >> /\ taps > 0 /\ total = SHIPPING_COST

\* C8: increment and decrement with an id that matches no item leave the cart
\* unchanged; with a matching id they change nothing but that item's quantity.
C8_QuantityFrame ==
    [][ \A id \in Ids :
          (incrementQuantity(id) \/ decrementQuantity(id)) =>
             /\ (\A k \in 1..Len(cartItems) : cartItems[k].id # id) => cartItems' = cartItems
             /\ Len(cartItems') = Len(cartItems)
             /\ \A k \in 1..Len(cartItems) :
                   /\ cartItems'[k].id = cartItems[k].id
                   /\ cartItems'[k].name = cartItems[k].name
                   /\ cartItems'[k].details = cartItems[k].details
                   /\ cartItems'[k].price = cartItems[k].price
                   /\ cartItems[k].id # id => cartItems'[k].quantity = cartItems[k].quantity ]_vars

\* only item 2 was incremented, twice; the other items are as seeded
C8_Witness ==
    /\ Len(cartItems) = 3
    /\ cartItems[1] = SeedCart[1]
    /\ cartItems[2].quantity = 3
    /\ cartItems[3] = SeedCart[3]

\* C9 as stated: every attempt goes Idle -> Submitting -> {Success, Failure,
\* Unavailable}, only a Web attempt skipping Submitting: an attempt that is not
\* a Web attempt and has an outcome has been submitted.
C9_OnlyWebSkipsSubmitting ==
    \A i \in 1..Len(calls) :
        (calls[i].mode # "WebDemo" /\ Outcome(calls[i]) \in Terminal) => calls[i].promise # "none"

\* C9 amended: the transitions of an attempt are Idle -> Success (Web),
\* Idle -> Unavailable (native, no capability), Idle -> Submitting (native,
\* capability loaded) and Submitting -> Success or Failure; the three outcomes
\* never change; an attempt in Submitting eventually reaches Success or
\* Failure when the capability eventually settles every submission.  (The
\* last conjunct says that every attempt eventually leaves Submitting for
\* good; by the transitions of the first conjunct, the only outcomes it can
\* leave Submitting for are Success and Failure.)
C9_AttemptStateMachine ==
    /\ [][ /\ Len(calls') >= Len(calls)
           /\ \A i \in 1..Len(calls') :
                LET old == OutcomeAt(calls, i)
                    new == OutcomeAt(calls', i)
                IN /\ old \in Terminal => new = old
                   /\ old = "Submitting" => new \in {"Submitting", "Success", "Failure"}
                   /\ old = "Idle" =>
                         new = (IF PlatformOS = "web" THEN "Success"
                                ELSE IF PayPal = "null" THEN "Unavailable"
                                ELSE "Submitting") ]_vars
    /\ \A i \in 1..MaxCheckouts : <>[](OutcomeAt(calls, i) # "Submitting")

\* a native attempt without the capability ended Unavailable and was dismissed
C9_Witness ==
    \E i \in 1..Len(calls) :
        /\ calls[i].mode = "NativeUnavailable"
        /\ Outcome(calls[i]) = "Unavailable"
        /\ calls[i].promise = "none"
        /\ calls[i].acked

\* C10: whenever the OK of a successful native payment empties the cart, the
\* amount submitted for that payment is the total of the cart being removed.
C10_PaidAmountIsRemovedTotal ==
    [][ \A i \in 1..Len(calls) :
          (Acknowledged(i) /\ calls[i].mode = "NativeLive" /\ Outcome(calls[i]) = "Success") =>
             ParseAmount(calls[i].amount) = SigmaPriceQty(cartItems) + SHIPPING_COST ]_vars

====
